---- MODULE Spec2Model ----
(***************************************************************************)
(* A model of the signal-conditioning core of the vital-signs project:     *)
(*   - the QRS peak scan of demo_ecg_processing        (main.py)           *)
(*   - the LMS adaptive canceller AdaptiveFilter        (dsp_filters.py)   *)
(*   - find_dominant_frequency / extract_heart_rate     (fft_analyzer.py)  *)
(*   - DSPFilters.moving_average                        (dsp_filters.py)   *)
(*                                                                         *)
(* Arrays are functions over 0..n-1, so indices are the source's indices.  *)
(* Real values are integers or exact rationals [num, den] with den > 0:    *)
(* every input drawn below is a small integer, on which the float64        *)
(* arithmetic of the source is exact for sums, products and comparisons.   *)
(***************************************************************************)
EXTENDS Integers, Sequences, FiniteSets, TLC

VARIABLES
    \* ---- QRS peak scan (main.py:104-109)
    filtered,       \* the conditioned buffer, 0..N-1 -> Int
    sample_rate,    \* samples per second
    threshold,      \* 0.5 * max(filtered), a rational
    peaks,          \* the list of accepted indices
    pk_i,           \* the loop variable i of the scan
    \* ---- AdaptiveFilter (dsp_filters.py:138-177)
    filter_length,  \* self.filter_length
    step_size,      \* self.step_size, a rational
    weights,        \* self.weights, 0..L-1 -> Int
    primary_signal, \* argument of the running call
    reference_noise,\* argument of the running call
    output,         \* the local array output
    af_i,           \* the loop variable i of filter
    af_pc,          \* "idle" (no call running) or "loop"
    af_calls,       \* number of calls completed on the instance, counted up to MaxCalls
    af_outcome,     \* how the last call ended: "none", "returned", "raised"
    af_entry,       \* history: self.weights at the entry of the last call
    af_exit,        \* history: self.weights at the exit of the last completed call
    af_trace,       \* history: per processed index, the weights read and the window used
    af_gain,        \* the constant k of a session whose primary signal is k * reference
    af_self,        \* which instance (1 or 2) the fields above belong to
    af_other,       \* the fields of the other AdaptiveFilter instance, if there is one
    af_ctor,        \* history: per instance, the arguments its constructor was given
    af_args,        \* history: the arguments of the running call as they were passed
    af_alone,       \* history: what each instance gives when it is run on its calls alone
    \* ---- FFTAnalyzer (fft_analyzer.py)
    fft_n,          \* len(signal_data)
    fft_rate,       \* self.sample_rate
    fft_mag,        \* |FFT| * 2 / n over all n bins of the transform
    fft_pc,         \* "ready" or "done"
    fft_band,       \* freq_range of the last search, <<lo, hi>> in 1/100 Hz
    fft_result,     \* value returned by the last operation
    fft_divs,       \* history: the divisors of the divisions performed
    \* ---- moving_average (dsp_filters.py:87-103)
    ma_data,        \* data
    ma_window,      \* window_size
    ma_pc,          \* "ready" or "done"
    ma_out,         \* the returned array of rationals
    \* ---- streaming loop over CircularBuffer (main.py:127-170)
    rb_size,        \* buffer_size, the capacity of the buffer
    rb_signal,      \* the samples the loop enumerates
    rb_buffer,      \* buffer.buffer, the deque(maxlen=size), oldest first
    rb_i,           \* the index i of the next sample = samples added so far
    processed_windows, \* number of invocations of the batch computation
    rb_invoked      \* history: per invocation, the samples added by then and the data

pkVars  == <<filtered, sample_rate, threshold, peaks, pk_i>>
afVars  == <<filter_length, step_size, weights, primary_signal, reference_noise,
             output, af_i, af_pc, af_calls, af_outcome, af_entry, af_exit, af_trace>>
fftVars == <<fft_n, fft_rate, fft_mag, fft_pc, fft_band, fft_result, fft_divs>>
maVars  == <<ma_data, ma_window, ma_pc, ma_out>>
sessVars == <<af_gain>>
twinVars == <<af_self, af_other, af_ctor, af_args, af_alone>>
rbVars  == <<rb_size, rb_signal, rb_buffer, rb_i, processed_windows, rb_invoked>>
vars    == <<pkVars, afVars, sessVars, twinVars, fftVars, maVars, rbVars>>

(***************************************************************************)
(* Helpers on arrays and rationals                                         *)
(***************************************************************************)
\* len() of an array held as a function over 0..n-1
ArrLen(a) == Cardinality(DOMAIN a)

\* the empty array
EmptyArr == [j \in {} |-> 0]

\* all arrays of length n over the values S
Arrays(n, S) == [0..(n - 1) -> S]

\* np.zeros(n)
Zeros(n) == [j \in 0..(n - 1) |-> 0]

\* np.max(a) of a non-empty array
ArrMax(a) == CHOOSE m \in {a[j] : j \in DOMAIN a} : \A j \in DOMAIN a : a[j] <= m

\* a rational number num/den, den > 0
Rat(n, d) == [num |-> n, den |-> d]

\* v > r for an integer v and a rational r
IntGtRat(v, r) == v * r.den > r.num

(***************************************************************************)
(* The components not exercised by a specification stay in these states.   *)
(***************************************************************************)
PkOff ==
    /\ filtered = EmptyArr /\ sample_rate = 0 /\ threshold = Rat(0, 1)
    /\ peaks = <<>> /\ pk_i = 0

AfOff ==
    /\ filter_length = 0 /\ step_size = Rat(0, 1) /\ weights = EmptyArr
    /\ primary_signal = EmptyArr /\ reference_noise = EmptyArr
    /\ output = EmptyArr /\ af_i = 0 /\ af_pc = "off" /\ af_calls = 0
    /\ af_outcome = "none" /\ af_entry = EmptyArr /\ af_exit = EmptyArr
    /\ af_trace = <<>>

\* no session with a fixed gain is run
SessOff == af_gain = 0

\* the fields of an instance
Instance(L, mu, w) == [filter_length |-> L, step_size |-> mu, weights |-> w]

\* the arguments of a constructor call
Ctor(L, mu) == [filter_length |-> L, step_size |-> mu]

NoInstance == Instance(0, Rat(0, 1), EmptyArr)
NoArgs == [primary |-> EmptyArr, reference |-> EmptyArr]

\* what freshly constructed instances with weights w1 and w2 give alone
Fresh(w1, w2) == [weights |-> <<w1, w2>>, output |-> EmptyArr]

\* there is no second instance
OneInstance ==
    /\ af_self = 1
    /\ af_other = NoInstance
    /\ af_ctor = <<Ctor(filter_length, step_size), Ctor(0, Rat(0, 1))>>
    /\ af_args = NoArgs
    /\ af_alone = Fresh(weights, EmptyArr)

FftOff ==
    /\ fft_n = 0 /\ fft_rate = 0 /\ fft_mag = EmptyArr /\ fft_pc = "off"
    /\ fft_band = <<0, 0>> /\ fft_result = <<>> /\ fft_divs = {}

MaOff ==
    /\ ma_data = EmptyArr /\ ma_window = 0 /\ ma_pc = "off" /\ ma_out = EmptyArr

RbOff ==
    /\ rb_size = 0 /\ rb_signal = EmptyArr /\ rb_buffer = <<>> /\ rb_i = 0
    /\ processed_windows = 0 /\ rb_invoked = <<>>

(***************************************************************************)
(* QRS peak scan: main.py:104-109                                          *)
(***************************************************************************)
MaxPeakLen == 8
PeakSamples == {-1, 0, 1, 2}
\* 10 Hz puts the refractory distance at exactly 3 samples, 5 Hz at 1.5
SampleRates == {5, 10}

\* threshold = 0.5 * np.max(filtered)
Threshold(buf) == Rat(ArrMax(buf), 2)

\* the last index of range(1, len(filtered)-1), exclusive
ScanEnd(buf) == ArrLen(buf) - 1

\* filtered[i] > threshold and filtered[i] > filtered[i-1] and filtered[i] > filtered[i+1]
IsCandidateLax(buf, thr, i) ==
    /\ IntGtRat(buf[i], thr)
    /\ buf[i] > buf[i - 1]
    /\ buf[i] >= buf[i + 1]

IsCandidate(buf, thr, i) ==
    /\ IntGtRat(buf[i], thr)
    /\ buf[i] > buf[i - 1]
    /\ buf[i] > buf[i + 1]

\* len(peaks) == 0 or i - peaks[-1] > sample_rate * 0.3
\* (sample_rate * 0.3 in float64 compares with an integer distance exactly as
\* the rational 3 * sample_rate / 10 does, for every integer rate up to 200000)
RefractoryOKLax(pks, rate, i) ==
    \/ Len(pks) = 0
    \/ (i - pks[Len(pks)]) * 10 >= 3 * rate

RefractoryOK(pks, rate, i) ==
    \/ Len(pks) = 0
    \/ (i - pks[Len(pks)]) * 10 > 3 * rate

PkInit ==
    /\ \E n \in 1..MaxPeakLen : filtered \in Arrays(n, PeakSamples)
    /\ sample_rate \in SampleRates
    /\ threshold = Threshold(filtered)
    /\ peaks = <<>>
    /\ pk_i = 1

\* one iteration of the for loop
ScanStep ==
    /\ pk_i < ScanEnd(filtered)
    /\ peaks' = IF IsCandidate(filtered, threshold, pk_i)
                   /\ RefractoryOK(peaks, sample_rate, pk_i)
                THEN Append(peaks, pk_i)
                ELSE peaks
    /\ pk_i' = pk_i + 1
    /\ UNCHANGED <<filtered, sample_rate, threshold>>
    /\ UNCHANGED <<afVars, sessVars, twinVars, fftVars, maVars, rbVars>>

PkDone == pk_i >= ScanEnd(filtered)

PkNext == ScanStep

\* the component starts, the others stay off
InitPeak == PkInit /\ AfOff /\ SessOff /\ OneInstance /\ FftOff /\ MaOff /\ RbOff

SpecPeak == InitPeak /\ [][PkNext]_vars

\* the set of indices held in the peak list
PeakSet == {peaks[k] : k \in 1..Len(peaks)}

\* C1: the peak list is strictly increasing and consecutive accepted peaks
\* are more than 0.3 * sample_rate samples apart (a distance of exactly
\* 0.3 * sample_rate, or less, is never accepted).
C1_RefractorySpacing ==
    \A k \in 1..(Len(peaks) - 1) :
        /\ peaks[k] < peaks[k + 1]
        /\ 10 * (peaks[k + 1] - peaks[k]) > 3 * sample_rate

\* C1 witness: the scan has ended with two or more peaks, and a strict local
\* maximum above the threshold lying exactly 0.3 * sample_rate samples after
\* an accepted peak was left out.
C1_Witness ==
    /\ PkDone
    /\ Len(peaks) >= 2
    /\ \E j \in 1..(ArrLen(filtered) - 2) : \E k \in 1..Len(peaks) :
          /\ 10 * (j - peaks[k]) = 3 * sample_rate
          /\ 2 * filtered[j] > ArrMax(filtered)
          /\ filtered[j] > filtered[j - 1]
          /\ filtered[j] > filtered[j + 1]
          /\ j \notin PeakSet

\* index j is interior, a strict local maximum, and above half the global maximum
C2_Qualifies(j) ==
    /\ 1 <= j /\ j <= ArrLen(filtered) - 2
    /\ filtered[j] > filtered[j - 1]
    /\ filtered[j] > filtered[j + 1]
    /\ 2 * filtered[j] > ArrMax(filtered)

\* C2: every accepted index is an interior strict local maximum above
\* 0.5 * the global maximum, the threshold is the one computed before the
\* scan, the first interior index that qualifies is accepted as soon as the
\* scan has passed it, and indices 0 and N-1 are never reported.
C2_AcceptedAreInteriorMaxima ==
    /\ threshold = Rat(ArrMax(filtered), 2)
    /\ \A p \in PeakSet : C2_Qualifies(p)
    /\ 0 \notin PeakSet /\ (ArrLen(filtered) - 1) \notin PeakSet
    /\ \A j \in 1..(ArrLen(filtered) - 2) :
          (j < pk_i /\ C2_Qualifies(j) /\ \A m \in 1..(j - 1) : ~C2_Qualifies(m))
              => (Len(peaks) >= 1 /\ peaks[1] = j)

\* C2 witness: the scan has ended with a peak accepted, while a plateau above
\* the threshold (equal to its right neighbour) and a first sample equal to
\* the global maximum were both left out.
C2_Witness ==
    /\ PkDone
    /\ Len(peaks) >= 1
    /\ filtered[0] = ArrMax(filtered)
    /\ \E j \in 1..(ArrLen(filtered) - 2) :
          /\ filtered[j] = filtered[j + 1]
          /\ filtered[j] > filtered[j - 1]
          /\ 2 * filtered[j] > ArrMax(filtered)
          /\ j \notin PeakSet

(***************************************************************************)
(* AdaptiveFilter: dsp_filters.py:138-177                                  *)
(***************************************************************************)
MaxSigLen == 3
MaxCalls == 2
FilterLengths == {1, 2}
\* step sizes for which 2 * step_size * error * x is an integer
StepSizes == {Rat(1, 2), Rat(1, 1)}
PrimaryVals == {0, 1}
ReferenceVals == {-1, 1}

\* a[lo:hi] for 0 <= lo, with hi clamped to len(a) as Python slicing does
Slice(a, lo, hi) ==
    LET top == IF hi < ArrLen(a) THEN hi ELSE ArrLen(a)
        n   == IF top > lo THEN top - lo ELSE 0
    IN  [k \in 0..(n - 1) |-> a[lo + k]]

\* a[::-1]
Reversed(a) == [k \in 0..(ArrLen(a) - 1) |-> a[ArrLen(a) - 1 - k]]

\* x = reference_noise[i-self.filter_length:i][::-1]
ReferenceWindow(ref, i, L) == Reversed(Slice(ref, i - L, i))

RECURSIVE DotUpTo(_, _, _)
DotUpTo(w, x, k) == IF k < 0 THEN 0 ELSE DotUpTo(w, x, k - 1) + w[k] * x[k]

\* np.dot(self.weights, x) for two arrays of one length
Dot(w, x) == DotUpTo(w, x, ArrLen(w) - 1)

\* error = primary_signal[i] - estimated_noise
Error(w, x, p_i) == p_i - Dot(w, x)

\* self.weights += 2 * self.step_size * error * x
UpdatedWeightsDescent(w, x, mu, err) ==
    [k \in DOMAIN w |-> w[k] - ((2 * mu.num * err * x[k]) \div mu.den)]

UpdatedWeights(w, x, mu, err) ==
    [k \in DOMAIN w |-> w[k] + ((2 * mu.num * err * x[k]) \div mu.den)]

\* self.weights as filter finds it on entry: the method does not assign it
\* before the loop
WeightsOnEntryReset(w) == Zeros(ArrLen(w))

WeightsOnEntry(w) == w

\* output = np.zeros(n), n = len(primary_signal)
InitialOutputCopy(p) == p

InitialOutput(p) == Zeros(ArrLen(p))

\* the first index of range(self.filter_length, n)
LoopStart(L) == L

\* AdaptiveFilter.__init__
AfInit ==
    /\ filter_length \in FilterLengths
    /\ step_size \in StepSizes
    /\ weights = Zeros(filter_length)
    /\ primary_signal = EmptyArr /\ reference_noise = EmptyArr
    /\ output = EmptyArr /\ af_i = 0 /\ af_pc = "idle" /\ af_calls = 0
    /\ af_outcome = "none" /\ af_entry = weights /\ af_exit = weights
    /\ af_trace = <<>>

\* the for loop of filter from index i on, as one computation: the weights
\* and the output it ends with
RECURSIVE LmsFrom(_, _, _, _, _, _, _)
LmsFrom(w, out, p, r, L, mu, i) ==
    IF i >= ArrLen(p) THEN [weights |-> w, output |-> out]
    ELSE LET x   == ReferenceWindow(r, i, L)
             err == Error(w, x, p[i])
         IN  LmsFrom(UpdatedWeights(w, x, mu, err), [out EXCEPT ![i] = err],
                     p, r, L, mu, i + 1)

\* one whole call of filter on an instance with the weights w
FilterAlone(w, p, r, L, mu) ==
    LmsFrom(WeightsOnEntry(w), InitialOutput(p), p, r, L, mu, LoopStart(L))

\* self.weights += ... writes into the array of self; the arrays of
\* the other instances are other objects
OtherInstancesShared(other, w) == [other EXCEPT !.weights = w]

OtherInstances(other, w) == other

\* filter(primary_signal, reference_noise) up to the loop: n, output
AfEnter(p, r) ==
    /\ af_pc = "idle"
    /\ primary_signal' = p
    /\ reference_noise' = r
    /\ output' = InitialOutput(p)
    /\ weights' = WeightsOnEntry(weights)
    /\ af_entry' = weights'
    /\ af_i' = LoopStart(filter_length)
    /\ af_pc' = "loop"
    /\ af_outcome' = "none"
    /\ af_trace' = <<>>
    /\ af_args' = [primary |-> p, reference |-> r]
    /\ af_alone' = [af_alone EXCEPT !.output = EmptyArr]
    /\ UNCHANGED <<filter_length, step_size, af_calls, af_exit>>
    /\ UNCHANGED <<af_self, af_other, af_ctor>>
    /\ UNCHANGED <<pkVars, sessVars, fftVars, maVars, rbVars>>

\* a call of filter, while the session has calls left
AfCall(p, r) == af_calls < MaxCalls /\ AfEnter(p, r)

\* one iteration of the for loop
AfStep ==
    /\ af_pc = "loop"
    /\ af_i < ArrLen(primary_signal)
    /\ LET x   == ReferenceWindow(reference_noise, af_i, filter_length)
           err == Error(weights, x, primary_signal[af_i])
       IN  /\ output' = [output EXCEPT ![af_i] = err]
           /\ weights' = UpdatedWeights(weights, x, step_size, err)
           /\ af_trace' = Append(af_trace, [i |-> af_i, w |-> weights, x |-> x])
    /\ af_i' = af_i + 1
    /\ af_other' = OtherInstances(af_other, weights')
    /\ UNCHANGED <<filter_length, step_size, primary_signal, reference_noise,
                   af_pc, af_calls, af_outcome, af_entry, af_exit>>
    /\ UNCHANGED <<af_self, af_ctor, af_args, af_alone>>
    /\ UNCHANGED <<pkVars, sessVars, fftVars, maVars, rbVars>>

\* the loop is exhausted: return output; the arguments and the other locals
\* of the call are gone, the caller holds the returned array
AfReturn ==
    /\ af_pc = "loop"
    /\ af_i >= ArrLen(primary_signal)
    /\ af_pc' = "idle"
    /\ af_calls' = IF af_calls < MaxCalls THEN af_calls + 1 ELSE af_calls
    /\ af_outcome' = "returned"
    /\ af_exit' = weights
    /\ af_entry' = weights
    /\ primary_signal' = EmptyArr /\ reference_noise' = EmptyArr
    /\ af_i' = 0 /\ af_trace' = <<>>
    /\ LET c   == af_ctor[af_self]
           run == FilterAlone(af_alone.weights[af_self], af_args.primary,
                              af_args.reference, c.filter_length, c.step_size)
       IN  af_alone' = [weights |-> [af_alone.weights EXCEPT ![af_self] = run.weights],
                        output  |-> run.output]
    /\ af_args' = NoArgs
    /\ UNCHANGED <<filter_length, step_size, weights, output>>
    /\ UNCHANGED <<af_self, af_other, af_ctor>>
    /\ UNCHANGED <<pkVars, sessVars, fftVars, maVars, rbVars>>

AfNext ==
    \/ \E n \in 0..MaxSigLen :
          \E p \in Arrays(n, PrimaryVals), r \in Arrays(n, ReferenceVals) : AfCall(p, r)
    \/ AfStep
    \/ AfReturn

\* the component starts, the others stay off
InitLMS == AfInit /\ SessOff /\ OneInstance /\ PkOff /\ FftOff /\ MaOff /\ RbOff

SpecLMS == InitLMS /\ [][AfNext]_vars

\* the call in progress has run its loop to the end and is about to return
AfLoopOver == af_pc = "loop" /\ af_i >= ArrLen(primary_signal)

\* C3: the window used for output[i] is reference[i], reference[i-1], ...,
\* reference[i-L+1] (most recent first, ending at index i itself).
C3_WindowEndsAtCurrentSample ==
    \A t \in 1..Len(af_trace) :
        /\ ArrLen(af_trace[t].x) = filter_length
        /\ \A k \in 0..(filter_length - 1) :
              af_trace[t].x[k] = reference_noise[af_trace[t].i - k]

\* the weights the LMS step leaves, from the weights w it read, the window x
\* it used and the error e it wrote: w + 2 * step_size * e * x
C4_Stepped(w, x, e) ==
    [k \in 0..(filter_length - 1) |->
        w[k] + ((2 * step_size.num * e * x[k]) \div step_size.den)]

\* sum of w[k] * x[k] over the taps K
RECURSIVE C4_Sum(_, _, _)
C4_Sum(w, x, K) ==
    IF K = {} THEN 0
    ELSE LET k == CHOOSE c \in K : TRUE
         IN  w[k] * x[k] + C4_Sum(w, x, K \ {k})

\* C4: indices are processed in increasing order from L, one at a time; for
\* each, output[i] = primary[i] - dot(w, window_i) with w the weights left by
\* the update for i-1 (the weights at call entry for i = L), and the update
\* w + 2 * step_size * output[i] * window_i follows, once per index.
C4_SequentialLms ==
    af_pc = "loop" =>
        /\ af_i = filter_length + Len(af_trace)
        /\ \A t \in 1..Len(af_trace) :
              /\ af_trace[t].i = filter_length + t - 1
              /\ af_trace[t].w =
                    IF t = 1 THEN af_entry
                    ELSE C4_Stepped(af_trace[t - 1].w, af_trace[t - 1].x,
                                    output[af_trace[t - 1].i])
              /\ output[af_trace[t].i] =
                    primary_signal[af_trace[t].i]
                      - C4_Sum(af_trace[t].w, af_trace[t].x, 0..(filter_length - 1))
        /\ weights =
              IF Len(af_trace) = 0 THEN af_entry
              ELSE C4_Stepped(af_trace[Len(af_trace)].w, af_trace[Len(af_trace)].x,
                              output[af_trace[Len(af_trace)].i])

\* C4 witness: a later call, entered with non-zero weights, has processed two
\* indices, each with a non-zero error, and its weights differ from those at entry.
C4_Witness ==
    /\ AfLoopOver
    /\ af_calls >= 1
    /\ af_entry # Zeros(filter_length)
    /\ Len(af_trace) >= 2
    /\ \A t \in 1..Len(af_trace) : output[af_trace[t].i] # 0
    /\ weights # af_entry

\* the smaller of two integers
C5_Min(a, b) == IF a < b THEN a ELSE b

\* C5: on every call, also a later one on non-zero weights, the output has
\* exactly N entries and output[i] = 0 for i in 0..min(L,N)-1, during the
\* call and in the array it returns.
C5_PrefixZeros ==
    /\ af_pc = "loop" =>
          /\ ArrLen(output) = ArrLen(primary_signal)
          /\ DOMAIN output = 0..(ArrLen(primary_signal) - 1)
          /\ \A j \in 0..(C5_Min(filter_length, ArrLen(primary_signal)) - 1) :
                output[j] = 0
    /\ (af_pc = "idle" /\ af_outcome = "returned") =>
          \A j \in 0..(C5_Min(filter_length, ArrLen(output)) - 1) : output[j] = 0

\* C5 witness: a later call entered with non-zero weights is about to return
\* an output longer than L with a non-zero entry, on a primary signal whose
\* first L samples are not all zero.
C5_Witness ==
    /\ AfLoopOver
    /\ af_calls >= 1
    /\ af_entry # Zeros(filter_length)
    /\ ArrLen(primary_signal) > filter_length
    /\ \E j \in 0..(filter_length - 1) : primary_signal[j] # 0
    /\ \E j \in DOMAIN output : output[j] # 0

\* C6: the weights are all zero after construction, and every call starts
\* from the weights the previous call left (those of construction for the
\* first call): nothing resets them between or at the start of calls.
C6_WeightsPersist ==
    /\ (af_pc = "idle" /\ af_calls = 0) => weights = Zeros(filter_length)
    /\ af_pc = "idle" => weights = af_exit
    /\ af_pc = "loop" => af_entry = af_exit

\* C6 witness: a second call runs, entered with the non-zero weights the
\* first call left, and has adapted them further.
C6_Witness ==
    /\ af_pc = "loop"
    /\ af_calls = 1
    /\ af_entry # Zeros(filter_length)
    /\ weights # af_entry

\* C7 as claimed: a call with a buffer shorter than L ends in an
\* Insufficient-Data error, not a normal return, with the weights unchanged.
C7_ShortBufferRaises ==
    (af_pc = "idle" /\ af_calls >= 1 /\ ArrLen(output) < filter_length) =>
        (af_outcome = "raised" /\ weights = af_exit)

\* C7 amended: a call with a buffer shorter than L runs no iteration and
\* returns normally an all-zero output of length N, the weights unchanged.
C7_ShortBufferReturnsZeros ==
    /\ (af_pc = "loop" /\ ArrLen(primary_signal) < filter_length) =>
          /\ AfLoopOver
          /\ weights = af_exit
          /\ output = Zeros(ArrLen(primary_signal))
    /\ (af_pc = "idle" /\ af_calls >= 1 /\ ArrLen(output) < filter_length) =>
          /\ af_outcome = "returned"
          /\ weights = af_exit
          /\ output = Zeros(ArrLen(output))

\* C7 witness: an instance with non-zero weights has returned from a call
\* whose non-empty buffer was shorter than L.
C7_Witness ==
    /\ af_pc = "idle"
    /\ af_calls >= 2
    /\ af_outcome = "returned"
    /\ ArrLen(output) >= 1
    /\ ArrLen(output) < filter_length
    /\ weights # Zeros(filter_length)

(***************************************************************************)
(* FFTAnalyzer: fft_analyzer.py:13-43, 62-115                              *)
(*                                                                         *)
(* Frequencies are exact rationals in Hz. The magnitudes of the transform  *)
(* are not computed: any non-negative spectrum that a real signal can have *)
(* (bin n-k mirrors bin k) is drawn, with what the Hann window forces for  *)
(* the shortest buffers. Band edges are given in 1/100 Hz.                 *)
(***************************************************************************)
MaxFftLen == 6
MaxMag == 2
FftRates == {1, 3, 4}
BandEdges == {0, 50, 100, 150}
\* freq_range=(0.67, 3.33), in 1/100 Hz
HeartBandLo == 67
HeartBandHi == 333

\* np.fft.fftfreq(n, 1/self.sample_rate): bin j is at FftBin(n, j) * rate / n Hz
FftBin(n, j) == IF j <= (n - 1) \div 2 THEN j ELSE j - n

FftFreq(n, rate) == [j \in 0..(n - 1) |-> Rat(FftBin(n, j) * rate, n)]

\* a[mask] for a boolean array mask: the kept entries, in their order
Compress(a, mask) ==
    LET K == {j \in DOMAIN a : mask[j]}
    IN  [k \in 0..(Cardinality(K) - 1) |->
            a[CHOOSE j \in K : Cardinality({h \in K : h < j}) = k]]

\* positive_mask = frequencies >= 0
PositiveMask(freqs) == [j \in DOMAIN freqs |-> freqs[j].num >= 0]

\* compute_fft: the frequencies and magnitudes of the non-negative bins
ComputeFft(n, rate, mag) ==
    LET freqs == FftFreq(n, rate)
        keep  == PositiveMask(freqs)
    IN  [frequencies |-> Compress(freqs, keep), magnitude |-> Compress(mag, keep)]

\* mask = (frequencies >= freq_range[0]) & (frequencies <= freq_range[1])
BandMask(freqs, lo, hi) ==
    [j \in DOMAIN freqs |->
        /\ freqs[j].num * 100 >= lo * freqs[j].den
        /\ freqs[j].num * 100 <= hi * freqs[j].den]

\* np.argmax(a): the first index holding the maximum
ArgMaxLast(a) == CHOOSE j \in DOMAIN a :
    /\ a[j] = ArrMax(a)
    /\ \A h \in DOMAIN a : a[h] = ArrMax(a) => h <= j

ArgMax(a) == CHOOSE j \in DOMAIN a :
    /\ a[j] = ArrMax(a)
    /\ \A h \in DOMAIN a : a[h] = ArrMax(a) => j <= h

\* find_dominant_frequency(signal_data, freq_range=(lo, hi))
FindDominantFrequency(n, rate, mag, lo, hi) ==
    LET fft         == ComputeFft(n, rate, mag)
        mask        == BandMask(fft.frequencies, lo, hi)
        freq_subset == Compress(fft.frequencies, mask)
        mag_subset  == Compress(fft.magnitude, mask)
    IN  IF ArrLen(mag_subset) = 0
        THEN [freq |-> Rat(0, 1), mag |-> 0]
        ELSE [freq |-> freq_subset[ArgMax(mag_subset)],
              mag  |-> mag_subset[ArgMax(mag_subset)]]

RECURSIVE SumUpTo(_, _)
SumUpTo(a, k) == IF k < 0 THEN 0 ELSE SumUpTo(a, k - 1) + a[k]

\* np.mean(a) of a non-empty array
Mean(a) == Rat(SumUpTo(a, ArrLen(a) - 1), ArrLen(a))

\* m / r for an integer m and a rational r >= 0; a zero r leaves den = 0,
\* which is no number (IEEE inf or nan)
Divide(m, r) == Rat(m * r.den, r.num)

\* confidence = magnitude / mean_mag if mean_mag > 0 else 0
\* (value, and the divisors of the divisions performed)
ConfidenceUnguarded(m, mean_mag) ==
    [value |-> Divide(m, mean_mag), divisors |-> {mean_mag}]

Confidence(m, mean_mag) ==
    IF mean_mag.num > 0
    THEN [value |-> Divide(m, mean_mag), divisors |-> {mean_mag}]
    ELSE [value |-> Rat(0, 1), divisors |-> {}]

\* what the Hann window leaves of the shortest buffers: np.hanning(2) is
\* [0, 0] and np.hanning(3) is [0, 1, 0], whose transform has one magnitude
HannPossible(n, mag) ==
    /\ n = 2 => \A j \in DOMAIN mag : mag[j] = 0
    /\ n = 3 => \A j \in DOMAIN mag : mag[j] = mag[0]

\* an analyzer and a buffer of n >= 1 samples
FftInit ==
    /\ fft_n \in 1..MaxFftLen
    /\ fft_rate \in FftRates
    /\ \E half \in Arrays(fft_n \div 2 + 1, 0..MaxMag) :
          fft_mag = [j \in 0..(fft_n - 1) |->
                        half[IF j <= fft_n \div 2 THEN j ELSE fft_n - j]]
    /\ HannPossible(fft_n, fft_mag)
    /\ fft_pc = "ready"
    /\ fft_band = <<0, 0>>
    /\ fft_result = [op |-> "none"]
    /\ fft_divs = {}

\* find_dominant_frequency(signal_data, (lo, hi))
FindDominant(lo, hi) ==
    /\ fft_pc \in {"ready", "done"}
    /\ fft_band' = <<lo, hi>>
    /\ LET r == FindDominantFrequency(fft_n, fft_rate, fft_mag, lo, hi)
       IN  fft_result' = [op |-> "dominant", freq |-> r.freq, mag |-> r.mag]
    /\ fft_divs' = {}
    /\ fft_pc' = "done"
    /\ UNCHANGED <<fft_n, fft_rate, fft_mag>>
    /\ UNCHANGED <<pkVars, afVars, sessVars, twinVars, maVars, rbVars>>

\* extract_heart_rate(ppg_signal)
ExtractHeartRate ==
    /\ fft_pc \in {"ready", "done"}
    /\ fft_band' = <<HeartBandLo, HeartBandHi>>
    /\ LET r        == FindDominantFrequency(fft_n, fft_rate, fft_mag,
                                             HeartBandLo, HeartBandHi)
           bpm      == Rat(r.freq.num * 60, r.freq.den)
           full     == ComputeFft(fft_n, fft_rate, fft_mag).magnitude
           mean_mag == Mean(full)
           conf     == Confidence(r.mag, mean_mag)
       IN  /\ fft_result' = [op |-> "heart_rate", bpm |-> bpm,
                             confidence |-> conf.value]
           /\ fft_divs' = conf.divisors
    /\ fft_pc' = "done"
    /\ UNCHANGED <<fft_n, fft_rate, fft_mag>>
    /\ UNCHANGED <<pkVars, afVars, sessVars, twinVars, maVars, rbVars>>

FftNext ==
    \/ \E lo \in BandEdges, hi \in BandEdges : FindDominant(lo, hi)
    \/ ExtractHeartRate

\* the component starts, the others stay off
InitFFT == FftInit /\ PkOff /\ AfOff /\ SessOff /\ OneInstance /\ MaOff /\ RbOff

SpecFFT == InitFFT /\ [][FftNext]_vars

\* the non-negative-frequency bins of the buffer's transform lying in the
\* inclusive band [lo, hi] (1/100 Hz): bin k is at k * fft_rate / fft_n Hz
InBand(lo, hi) ==
    {k \in 0..((fft_n - 1) \div 2) :
        /\ lo * fft_n <= 100 * k * fft_rate
        /\ 100 * k * fft_rate <= hi * fft_n}

\* the lowest bin of B among those of greatest magnitude in B
LowestPeak(B) ==
    CHOOSE k \in B :
        /\ \A h \in B : fft_mag[h] <= fft_mag[k]
        /\ \A h \in B : fft_mag[h] = fft_mag[k] => k <= h

\* C8: find_dominant_frequency over the inclusive band [lo, hi] returns
\* (0, 0) when no non-negative bin lies in the band; otherwise the frequency
\* and magnitude of a bin of the band of greatest magnitude there, the one
\* of lowest frequency when several tie.
C8_DominantFrequency ==
    fft_result.op = "dominant" =>
        LET B == InBand(fft_band[1], fft_band[2])
        IN  IF B = {}
            THEN fft_result.freq = Rat(0, 1) /\ fft_result.mag = 0
            ELSE /\ fft_result.mag = fft_mag[LowestPeak(B)]
                 /\ fft_result.freq.den > 0
                 /\ fft_result.freq.num * fft_n
                        = LowestPeak(B) * fft_rate * fft_result.freq.den

\* C8 witness: a search whose band holds three or more bins, with a bin on
\* the lower edge and one on the upper edge, a tie for the maximum between
\* two bins and a smaller bin below them; the lower of the tied bins is returned.
C8_Witness ==
    /\ fft_result.op = "dominant"
    /\ LET B == InBand(fft_band[1], fft_band[2])
       IN  /\ Cardinality(B) >= 3
           /\ \E k \in B : 100 * k * fft_rate = fft_band[1] * fft_n
           /\ \E k \in B : 100 * k * fft_rate = fft_band[2] * fft_n
           /\ \E k \in B, h \in B, g \in B :
                 /\ g < k /\ k < h
                 /\ fft_mag[g] < fft_mag[k]
                 /\ fft_mag[k] = fft_mag[h]
                 /\ \A j \in B : fft_mag[j] <= fft_mag[k]
                 /\ fft_result.freq.num * fft_n = k * fft_rate * fft_result.freq.den
                 /\ fft_result.mag > 0

\* sum of the magnitudes of the bins K
RECURSIVE C9_Total(_)
C9_Total(K) ==
    IF K = {} THEN 0
    ELSE LET k == CHOOSE c \in K : TRUE IN fft_mag[k] + C9_Total(K \ {k})

\* C9: extract_heart_rate returns 60 * the dominant frequency of
\* [0.67, 3.33] Hz and confidence = that bin's magnitude / the mean magnitude
\* of all non-negative bins; with a zero mean the confidence is 0 and nothing
\* is divided, and with no bin in the band the result is (0, 0).
C9_HeartRate ==
    fft_result.op = "heart_rate" =>
        LET B     == InBand(HeartBandLo, HeartBandHi)
            All   == 0..((fft_n - 1) \div 2)
            total == C9_Total(All)
            count == Cardinality(All)
            peak  == IF B = {} THEN 0 ELSE fft_mag[LowestPeak(B)]
        IN  /\ \A d \in fft_divs : d.num # 0
            /\ IF B = {}
               THEN fft_result.bpm.num = 0
               ELSE fft_result.bpm.num * fft_n
                        = 60 * LowestPeak(B) * fft_rate * fft_result.bpm.den
            /\ fft_result.confidence.den > 0
            /\ IF total = 0
               THEN fft_result.confidence.num = 0 /\ fft_divs = {}
               ELSE fft_result.confidence.num * total
                        = peak * count * fft_result.confidence.den
            /\ B = {} => fft_result.confidence.num = 0

\* C9 witness: heart-rate extraction on a buffer with a bin in the heart
\* band and an all-zero spectrum: the mean is 0, the confidence 0.
C9_Witness ==
    /\ fft_result.op = "heart_rate"
    /\ InBand(HeartBandLo, HeartBandHi) # {}
    /\ \A j \in DOMAIN fft_mag : fft_mag[j] = 0
    /\ fft_result.confidence = Rat(0, 1)
    /\ fft_divs = {}

(***************************************************************************)
(* DSPFilters.moving_average: dsp_filters.py:87-103                        *)
(***************************************************************************)
MaxMaLen == 4
MaxWindow == 4
MaVals == {0, 1, 2}

\* kernel = np.ones(window_size) / window_size
Kernel(W) == [k \in 0..(W - 1) |-> Rat(1, W)]

\* np.pad(data, (before, after), mode='edge')
PadConstant(data, before, after) ==
    [m \in 0..(before + ArrLen(data) + after - 1) |->
        IF m < before \/ m >= before + ArrLen(data) THEN 0 ELSE data[m - before]]

PadEdge(data, before, after) ==
    [m \in 0..(before + ArrLen(data) + after - 1) |->
        IF m < before THEN data[0]
        ELSE IF m >= before + ArrLen(data) THEN data[ArrLen(data) - 1]
        ELSE data[m - before]]

\* sum over m = 0..t of a[k + K - 1 - m] * v[m].num, for a kernel v of K taps
RECURSIVE ConvTerm(_, _, _, _)
ConvTerm(a, v, k, t) ==
    IF t < 0 THEN 0
    ELSE ConvTerm(a, v, k, t - 1) + a[k + ArrLen(v) - 1 - t] * v[t].num

\* np.convolve(a, v, mode='valid') for integers a and a kernel v of rationals
\* with one denominator, len(a) >= len(v): the positions of full overlap
ConvolveValid(a, v) ==
    [k \in 0..(ArrLen(a) - ArrLen(v)) |->
        Rat(ConvTerm(a, v, k, ArrLen(v) - 1), v[0].den)]

\* moving_average(data, window_size)
MovingAverageOf(data, W) ==
    LET kernel   == Kernel(W)
        padded   == PadEdge(data, W \div 2, W \div 2)
        smoothed == ConvolveValid(padded, kernel)
    IN  Slice(smoothed, 0, ArrLen(data))

MaInit ==
    /\ \E n \in 1..MaxMaLen : ma_data \in Arrays(n, MaVals)
    /\ ma_window \in 1..MaxWindow
    /\ ma_pc = "ready"
    /\ ma_out = EmptyArr

\* the call filters.moving_average(data, window_size)
MovingAverage ==
    /\ ma_pc = "ready"
    /\ ma_out' = MovingAverageOf(ma_data, ma_window)
    /\ ma_pc' = "done"
    /\ UNCHANGED <<ma_data, ma_window>>
    /\ UNCHANGED <<pkVars, afVars, sessVars, twinVars, fftVars, rbVars>>

MaNext == MovingAverage

\* the component starts, the others stay off
InitMA == MaInit /\ PkOff /\ AfOff /\ SessOff /\ OneInstance /\ FftOff /\ RbOff

SpecMA == InitMA /\ [][MaNext]_vars

\* entry m of the input padded by floor(W/2) copies of its first value on
\* the left and of its last value on the right
C10_Padded(m) ==
    LET h == ma_window \div 2
        n == ArrLen(ma_data)
    IN  IF m < h THEN ma_data[0]
        ELSE IF m - h > n - 1 THEN ma_data[n - 1]
        ELSE ma_data[m - h]

\* C10_Padded(j) + ... + C10_Padded(j + t - 1)
RECURSIVE C10_WindowSum(_, _)
C10_WindowSum(j, t) ==
    IF t = 0 THEN 0 ELSE C10_Padded(j + t - 1) + C10_WindowSum(j, t - 1)

\* C10: for N >= 1 and W >= 1, odd or even, moving_average returns exactly N
\* samples, and output[j] is the mean of padded[j .. j+W-1], the input padded
\* with floor(W/2) copies of its first value and of its last value.
C10_MovingAverage ==
    ma_pc = "done" =>
        /\ DOMAIN ma_out = 0..(ArrLen(ma_data) - 1)
        /\ \A j \in DOMAIN ma_out :
              /\ ma_out[j].den > 0
              /\ ma_out[j].num * ma_window
                    = C10_WindowSum(j, ma_window) * ma_out[j].den

\* C10 witness: an even window longer than the input, whose first and last
\* values differ, has been applied and the output is not constant.
C10_Witness ==
    /\ ma_pc = "done"
    /\ ma_window % 2 = 0
    /\ ma_window > ArrLen(ma_data)
    /\ ArrLen(ma_data) >= 2
    /\ ma_data[0] # ma_data[ArrLen(ma_data) - 1]
    /\ \E j \in DOMAIN ma_out : ma_out[j] # ma_out[0]



(***************************************************************************)
(* A noise-cancellation session: an endless stream of buffers is passed to *)
(* one AdaptiveFilter, call after call, each with primary = k * reference  *)
(* for the session's constant k. The step size is one for which the LMS    *)
(* recursion is stable at the power of the reference: 2*mu*L*max(r^2) < 2. *)
(***************************************************************************)
Gains == {-1, 1, 2}

\* the greatest r * r over the reference values
RefPower == ArrMax([j \in 0..(Cardinality(ReferenceVals) - 1) |->
                LET v == CHOOSE u \in ReferenceVals :
                             Cardinality({t \in ReferenceVals : t < u}) = j
                IN  v * v])

\* 2 * mu * L * max(r^2) < 2
StableStep(L, mu) == mu.num * L * RefPower < mu.den

\* k * reference
ScaledBy(k, r) == [j \in DOMAIN r |-> k * r[j]]

SessInit ==
    /\ AfInit
    /\ StableStep(filter_length, step_size)
    /\ af_gain \in Gains

\* the next buffer of the stream is filtered
SessCall(r) == AfEnter(ScaledBy(af_gain, r), r)

SessNext ==
    \/ \E n \in 0..MaxSigLen : \E r \in Arrays(n, ReferenceVals) : SessCall(r)
    \/ AfStep
    \/ AfReturn

InitSession == SessInit /\ OneInstance /\ PkOff /\ FftOff /\ MaOff /\ RbOff

\* a started call runs to its end (the loop is sequential code), and the
\* stream does not end
SessFair ==
    /\ WF_vars(AfStep)
    /\ WF_vars(AfReturn)
    /\ WF_vars(\E n \in 0..MaxSigLen : \E r \in Arrays(n, ReferenceVals) : SessCall(r))

SpecSession == InitSession /\ [][SessNext]_vars /\ SessFair

\* every error written to the current output is below 1 in magnitude
C12_ErrorsBelowOne == \A j \in DOMAIN output : -1 < output[j] /\ output[j] < 1

\* C12: from zero weights, with primary = k * reference, the error output
\* converges to 0: for every eps > 0 (here eps = 1) the magnitude of the
\* errors is eventually below eps and stays below it.
C12_ErrorConverges == <>[]C12_ErrorsBelowOne


(***************************************************************************)
(* Two AdaptiveFilter instances (two channels), each constructed with its  *)
(* own arguments; the caller calls filter on one or the other, in any      *)
(* order. The fields filter_length, step_size, weights are those of the    *)
(* instance af_self, those of the other instance are kept in af_other.     *)
(***************************************************************************)
TwoInstances ==
    /\ af_self = 1
    /\ \E L \in FilterLengths, mu \in StepSizes :
          af_other = Instance(L, mu, Zeros(L))
    /\ af_ctor = <<Ctor(filter_length, step_size),
                   Ctor(af_other.filter_length, af_other.step_size)>>
    /\ af_args = NoArgs
    /\ af_alone = Fresh(weights, af_other.weights)

\* the next call is made on the other instance
AfSwitch ==
    /\ af_pc = "idle"
    /\ af_other # NoInstance
    /\ af_self' = 3 - af_self
    /\ filter_length' = af_other.filter_length
    /\ step_size' = af_other.step_size
    /\ weights' = af_other.weights
    /\ af_other' = Instance(filter_length, step_size, weights)
    /\ af_entry' = weights' /\ af_exit' = weights'
    /\ UNCHANGED <<primary_signal, reference_noise, output, af_i, af_pc,
                   af_calls, af_outcome, af_trace>>
    /\ UNCHANGED <<af_ctor, af_args, af_alone>>
    /\ UNCHANGED <<pkVars, sessVars, fftVars, maVars, rbVars>>

\* the primary samples of the two-channel sessions
TwinPrimaryVals == {1}

TwinNext ==
    \/ \E n \in 0..MaxSigLen :
          \E p \in Arrays(n, TwinPrimaryVals), r \in Arrays(n, ReferenceVals) : AfCall(p, r)
    \/ AfStep
    \/ AfReturn
    \/ AfSwitch

InitTwin == AfInit /\ SessOff /\ TwoInstances /\ PkOff /\ FftOff /\ MaOff /\ RbOff

SpecTwin == InitTwin /\ [][TwinNext]_vars

\* the instance that is not af_self
C13_Other == 3 - af_self

\* C13: filter changes nothing but the values of the instance's own weights:
\* filter_length and step_size of both instances equal their constructor
\* values, the weight vector has filter_length entries, the primary and
\* reference arguments are as they were passed, the weights of the other
\* instance are untouched, and each instance's weights and returned output
\* are those of the instance run on its own calls alone.
C13_FrameEffect ==
    /\ Ctor(filter_length, step_size) = af_ctor[af_self]
    /\ Ctor(af_other.filter_length, af_other.step_size) = af_ctor[C13_Other]
    /\ DOMAIN weights = 0..(filter_length - 1)
    /\ DOMAIN af_other.weights = 0..(af_other.filter_length - 1)
    /\ af_pc = "loop" =>
          /\ primary_signal = af_args.primary
          /\ reference_noise = af_args.reference
    /\ af_other.weights = af_alone.weights[C13_Other]
    /\ af_pc = "idle" => weights = af_alone.weights[af_self]
    /\ af_outcome = "returned" => output = af_alone.output

\* both instances have been called, the second one last, on samples that
\* moved the weights of each
C13_Witness ==
    /\ af_self = 2 /\ af_pc = "idle" /\ af_outcome = "returned"
    /\ af_calls = 2
    /\ \E k \in DOMAIN weights : weights[k] # 0
    /\ \E k \in DOMAIN af_other.weights : af_other.weights[k] # 0
    /\ af_other.weights # weights

(***************************************************************************)
(* Streaming loop over CircularBuffer: main.py:127-170                     *)
(***************************************************************************)
MaxBufSize == 3
MaxStreamLen == 6
StreamVals == {0, 1}

\* CircularBuffer.add: deque(maxlen=size).append drops the oldest entry of a
\* full deque
DequeAppend(buf, size, value) ==
    IF Len(buf) < size THEN Append(buf, value)
    ELSE Append(Tail(buf), value)

\* CircularBuffer.is_full
IsFull(buf, size) == Len(buf) = size

\* if buffer.is_full() and i % buffer_size == 0
ProcessNow(buf, size, i) == IsFull(buf, size) /\ i % size = 0

\* buffer = CircularBuffer(buffer_size); processed_windows = 0
RbInit ==
    /\ rb_size \in 1..MaxBufSize
    /\ \E n \in 0..MaxStreamLen : rb_signal \in Arrays(n, StreamVals)
    /\ rb_buffer = <<>>
    /\ rb_i = 0
    /\ processed_windows = 0
    /\ rb_invoked = <<>>

\* one iteration of for i, sample in enumerate(signal)
StreamStep ==
    /\ rb_i < ArrLen(rb_signal)
    /\ rb_buffer' = DequeAppend(rb_buffer, rb_size, rb_signal[rb_i])
    /\ IF ProcessNow(rb_buffer', rb_size, rb_i)
       THEN /\ processed_windows' = processed_windows + 1
            /\ rb_invoked' = Append(rb_invoked,
                                    [added |-> rb_i + 1, data |-> rb_buffer'])
       ELSE UNCHANGED <<processed_windows, rb_invoked>>
    /\ rb_i' = rb_i + 1
    /\ UNCHANGED <<rb_size, rb_signal>>
    /\ UNCHANGED <<pkVars, afVars, sessVars, twinVars, fftVars, maVars>>

RbNext == StreamStep

\* the component starts, the others stay off
InitStream == RbInit /\ PkOff /\ AfOff /\ SessOff /\ OneInstance /\ FftOff /\ MaOff

SpecStream == InitStream /\ [][RbNext]_vars

\* C11: the batch computation is invoked once the window fills: first at the
\* step at which the buffer first holds size samples (right after the
\* size-th sample is added), and then after every size further samples.
C11_InvokedWhenWindowFills ==
    /\ rb_i >= rb_size => Len(rb_invoked) >= 1
    /\ \A k \in 1..Len(rb_invoked) : rb_invoked[k].added = k * rb_size

(***************************************************************************)
(* The whole core: one of the components runs in a behaviour.              *)
(***************************************************************************)
Init ==
    \/ InitPeak
    \/ InitLMS
    \/ InitSession
    \/ InitTwin
    \/ InitFFT
    \/ InitMA
    \/ InitStream

Next == PkNext \/ AfNext \/ SessNext \/ TwinNext \/ FftNext \/ MaNext \/ RbNext

Spec == Init /\ [][Next]_vars

====
